---- MODULE Spec2Model ----
(***************************************************************************)
(* Model of nova-can: the CAN identifier / frame-header codec and the      *)
(* acceptance-filter derivation of src/c/nova_can.h, and the mock motor    *)
(* driver node of examples/motor_driver_mock.c (command callbacks, the     *)
(* fixed-point control tick and the periodic scheduling loop of main).     *)
(*                                                                         *)
(* A uint32_t / uint8_t value is modelled as the set of its set bit        *)
(* positions, so that shifts, masks and ors keep their width: a shift      *)
(* left drops the bits that leave the word, an or is a union, a mask is    *)
(* an intersection.                                                        *)
(***************************************************************************)
EXTENDS Integers, FiniteSets, Sequences, TLC

VARIABLES
    \* ---- identifier codec harness (test_canid.c) ----
    canid_struct,          \* NovaCAN_CANID handed to nova_can_serialize_canid
    canid,                 \* uint32_t raw identifier (bit set)
    parsed,                \* NovaCAN_CANID written by nova_can_deserialize_canid
    id_pc,                 \* "init" | "serialized" | "deserialized" | "roundtrip"
    \* ---- frame header codec ----
    frame_header_struct,   \* NOVA_CAN_FRAME_HEADER handed to the serializer
    frame_header,          \* uint8_t header byte (bit set)
    hdr_parsed,            \* NOVA_CAN_FRAME_HEADER returned by the deserializer
    hdr_pc,                \* "init" | "serialized" | "deserialized" | "roundtrip"
    \* ---- acceptance filter derivation ----
    node_id,               \* uint8_t argument of nova_can_get_canid_filter
    filter,                \* caller's uint32_t filter output (bit set)
    filter_in,             \* value the caller's filter held before the call
    mask,                  \* caller's uint32_t mask output (bit set)
    filter_ret,            \* return value of nova_can_get_canid_filter
    sent,                  \* NovaCAN_CANID of a frame offered to the filter
    accepted,              \* (raw_id & mask) == filter for that frame
    flt_pc,                \* "init" | "derived" | "masked" | "matched"
    \* ---- motor driver mock: control state ----
    control_mode,          \* MODE_CURRENT | MODE_VELOCITY | MODE_POSITION
    target_current,        \* int16_t
    target_velocity,       \* int16_t
    target_position,       \* int16_t
    accel_q,               \* int16_t
    vel_q,                 \* int16_t
    pos_q,                 \* int16_t
    vel_integral,          \* int16_t
    vel_prev_error,        \* int16_t
    published,             \* <<current, velocity, position>> of the last tick
    desired_accel,         \* int16_t local of the last tick
    last_cmd,              \* the last command frame handed to a callback
    \* ---- motor driver mock: scheduling loop of main ----
    now,                   \* struct timespec: last CLOCK_MONOTONIC reading
    next_tick,             \* struct timespec: the deadline
    tv,                    \* struct timeval handed to select
    pc,                    \* "init_tick" | "loop" | "select" | "catchup"
    t0,                    \* the clock reading the schedule starts from
    ticks,                 \* control ticks executed so far
    frames,                \* select wake-ups with a readable socket so far
    rx_ret,                \* how select and read ended in this loop iteration
    first_check            \* clock reading and tick count at the first due-check

canidVars  == <<canid_struct, canid, parsed, id_pc>>
hdrVars    == <<frame_header_struct, frame_header, hdr_parsed, hdr_pc>>
filterVars == <<node_id, filter, filter_in, mask, filter_ret, sent, accepted, flt_pc>>
ctlVars    == <<control_mode, target_current, target_velocity, target_position,
                accel_q, vel_q, pos_q, vel_integral, vel_prev_error, published,
                desired_accel, last_cmd>>
schedVars  == <<now, next_tick, tv, pc, t0, ticks, frames, rx_ret, first_check>>
motorVars  == <<ctlVars, schedVars>>
vars       == <<canidVars, hdrVars, filterVars, motorVars>>

-----------------------------------------------------------------------------
(* Fixed-width words as bit sets *)

Pow2(n) == 2 ^ n

\* the bits of a non-negative integer below 2^31
Bits(n) == {i \in 0..30 : (n \div Pow2(i)) % 2 = 1}

RECURSIVE Val(_)
\* the integer a bit set (within bits 0..30) stands for
Val(S) == IF S = {} THEN 0
          ELSE LET i == CHOOSE j \in S : TRUE IN Pow2(i) + Val(S \ {i})

Shl32(S, k) == {i + k : i \in S} \cap (0..31)      \* (uint32_t)x << k
Shr(S, k)   == {i - k : i \in {j \in S : j >= k}}  \* x >> k
BitAnd(S, T) == S \cap T
BitOr(S, T)  == S \cup T
ToU8(S)      == S \cap (0..7)                      \* (uint8_t)x
BoolBit(b)   == IF b THEN {0} ELSE {}              \* (uint32_t)(bool)
ToBool(S)    == S # {}                             \* (bool)x

-----------------------------------------------------------------------------
(* src/c/nova_can.h *)

NovaCAN_CANID(p, s, sr, port, dst, src) ==
    [priority |-> p, service |-> s, service_request |-> sr,
     port_id |-> port, destination_id |-> dst, source_id |-> src]

NOVA_CAN_FRAME_HEADER(sot, eot, tid) ==
    [start_of_transfer |-> sot, end_of_transfer |-> eot, transfer_id |-> tid]

\* mutants of the decoder: an 8-bit port mask; 7-bit node id masks
mut_deserialize_canid_port8(c) ==
    NovaCAN_CANID(Val(BitAnd(Shr(c, 26), Bits(7))),
                  ToBool(BitAnd(Shr(c, 25), Bits(1))),
                  ToBool(BitAnd(Shr(c, 24), Bits(1))),
                  Val(BitAnd(Shr(c, 14), Bits(255))),
                  Val(BitAnd(Shr(c, 7), Bits(63))),
                  Val(BitAnd(c, Bits(63))))

mut_deserialize_canid_mask7f(c) ==
    NovaCAN_CANID(Val(BitAnd(Shr(c, 26), Bits(7))),
                  ToBool(BitAnd(Shr(c, 25), Bits(1))),
                  ToBool(BitAnd(Shr(c, 24), Bits(1))),
                  Val(BitAnd(Shr(c, 14), Bits(511))),
                  Val(BitAnd(Shr(c, 7), Bits(127))),
                  Val(BitAnd(c, Bits(127))))

nova_can_deserialize_canid(c) ==
    NovaCAN_CANID(Val(BitAnd(Shr(c, 26), Bits(7))),
                  ToBool(BitAnd(Shr(c, 25), Bits(1))),
                  ToBool(BitAnd(Shr(c, 24), Bits(1))),
                  Val(BitAnd(Shr(c, 14), Bits(511))),
                  Val(BitAnd(Shr(c, 7), Bits(63))),
                  Val(BitAnd(c, Bits(63))))

\* mutant of the encoder: the port shifted by 13 instead of 14
mut_serialize_canid_shift13(x) ==
    LET c0 == {}
        c1 == BitOr(c0, Shl32(Bits(x.priority), 26))
        c2 == BitOr(c1, Shl32(BoolBit(x.service), 25))
        c3 == BitOr(c2, Shl32(BoolBit(x.service_request), 24))
        c4 == BitOr(c3, Shl32(Bits(x.port_id), 13))
        c5 == BitOr(c4, Shl32(Bits(x.destination_id), 7))
    IN  BitOr(c5, Bits(x.source_id))

nova_can_serialize_canid(x) ==
    LET c0 == {}
        c1 == BitOr(c0, Shl32(Bits(x.priority), 26))
        c2 == BitOr(c1, Shl32(BoolBit(x.service), 25))
        c3 == BitOr(c2, Shl32(BoolBit(x.service_request), 24))
        c4 == BitOr(c3, Shl32(Bits(x.port_id), 14))
        c5 == BitOr(c4, Shl32(Bits(x.destination_id), 7))
    IN  BitOr(c5, Bits(x.source_id))

\* mutant of the header decoder: the end flag read from bit 5
mut_deserialize_frame_header_bit5(b) ==
    NOVA_CAN_FRAME_HEADER(ToBool(BitAnd(Shr(b, 7), Bits(1))),
                          ToBool(BitAnd(Shr(b, 5), Bits(1))),
                          Val(BitAnd(b, Bits(31))))

nova_can_deserialize_frame_header(b) ==
    NOVA_CAN_FRAME_HEADER(ToBool(BitAnd(Shr(b, 7), Bits(1))),
                          ToBool(BitAnd(Shr(b, 6), Bits(1))),
                          Val(BitAnd(b, Bits(31))))

nova_can_serialize_frame_header(h) ==
    LET b0 == {}
        b1 == ToU8(BitOr(b0, Shl32(BoolBit(h.start_of_transfer), 7)))
        b2 == ToU8(BitOr(b1, Shl32(BoolBit(h.end_of_transfer), 6)))
    IN  ToU8(BitOr(b2, Bits(h.transfer_id)))

\* mutant of the filter derivation: the node id check off by one
mut_get_canid_filter_gt64(n, old) ==
    IF n > 64 THEN [ret |-> -1, filter |-> old]
    ELSE [ret |-> 0, filter |-> Shl32(Bits(n), 7)]

\* [ret, filter]: the return value and the caller's filter afterwards
nova_can_get_canid_filter(n, old) ==
    IF n > 63 THEN [ret |-> -1, filter |-> old]
    ELSE [ret |-> 0, filter |-> Shl32(Bits(n), 7)]

\* mutant of the mask: five node id bits instead of six
mut_get_canid_mask_5bit == [ret |-> 0, mask |-> Shl32(Bits(31), 7)]

nova_can_get_canid_mask == [ret |-> 0, mask |-> Shl32(Bits(63), 7)]

-----------------------------------------------------------------------------
(* examples/motor_driver_mock.c: control state, callbacks, control tick *)

MODE_CURRENT  == 0
MODE_VELOCITY == 1
MODE_POSITION == 2

JERK_PER_TICK == 5
ACCEL_FROM_CURRENT_DIV == 2
VEL_KP == 4
VEL_KI == 1
VEL_SHIFT == 3
VEL_INT_LIM == 3000
POS_KP == 2
POS_SHIFT == 2

INT16_MAX == 32767
INT16_MIN == -32768

\* (int16_t)v: conversion of an int to int16_t keeps the low 16 bits
ToInt16(v) == LET m == v % 65536 IN IF m >= 32768 THEN m - 65536 ELSE m

\* a / b of C for b > 0: the quotient truncated toward zero
CDiv(a, b) == IF a >= 0 THEN a \div b ELSE -((-a) \div b)

\* a >> k of C on a signed int: the arithmetic shift
Sar(a, k) == a \div Pow2(k)

\* mutant of the clamp: the value is narrowed to int16_t without saturation
mut_clamp_int16_wraps(v) == ToInt16(v)

clamp_int16(v) == IF v > INT16_MAX THEN INT16_MAX
                  ELSE IF v < INT16_MIN THEN INT16_MIN
                  ELSE ToInt16(v)

\* mutant of the current handler: the targets of the other modes are cleared
mut_current_callback_clears_targets(value) ==
    /\ control_mode' = MODE_CURRENT
    /\ target_current' = value
    /\ target_velocity' = 0
    /\ target_position' = 0

nova_can_motor_driver_current_command_callback(value) ==
    /\ control_mode' = MODE_CURRENT
    /\ target_current' = value
    /\ UNCHANGED <<target_velocity, target_position>>

\* mutant of the velocity handler: the target is stored, the mode is kept
mut_velocity_callback_keeps_mode(value) ==
    /\ target_velocity' = value
    /\ UNCHANGED <<control_mode, target_current, target_position>>

nova_can_motor_driver_velocity_command_callback(value) ==
    /\ control_mode' = MODE_VELOCITY
    /\ target_velocity' = value
    /\ UNCHANGED <<target_current, target_position>>

nova_can_motor_driver_position_command_callback(value) ==
    /\ control_mode' = MODE_POSITION
    /\ target_position' = value
    /\ UNCHANGED <<target_current, target_velocity>>

\* the generated receive function: the handler of the frame's port is called
\* with the decoded payload; a frame of no command port changes nothing
nova_can_motor_driver_rx(f) ==
    IF f.port = "current" THEN nova_can_motor_driver_current_command_callback(f.value)
    ELSE IF f.port = "velocity" THEN nova_can_motor_driver_velocity_command_callback(f.value)
    ELSE IF f.port = "position" THEN nova_can_motor_driver_position_command_callback(f.value)
    ELSE UNCHANGED <<control_mode, target_current, target_velocity, target_position>>

\* mutant of the PI law: the lower clamp of the integral left out
mut_VelocityLaw_no_low_clamp(vel_error) ==
    LET v_int0 == vel_integral + vel_error
        v_int1 == IF v_int0 > VEL_INT_LIM THEN VEL_INT_LIM ELSE v_int0
        integral == ToInt16(v_int1)
        acc_cmd == VEL_KP * vel_error + VEL_KI * integral
    IN  [vel_integral |-> integral,
         vel_prev_error |-> vel_error,
         desired_accel |-> ToInt16(Sar(acc_cmd, VEL_SHIFT))]

\* the velocity PI law shared by the velocity and position branches
VelocityLaw(vel_error) ==
    LET v_int0 == vel_integral + vel_error
        v_int1 == IF v_int0 > VEL_INT_LIM THEN VEL_INT_LIM ELSE v_int0
        v_int2 == IF v_int1 < -VEL_INT_LIM THEN -VEL_INT_LIM ELSE v_int1
        integral == ToInt16(v_int2)
        acc_cmd == VEL_KP * vel_error + VEL_KI * integral
    IN  [vel_integral |-> integral,
         vel_prev_error |-> vel_error,
         desired_accel |-> ToInt16(Sar(acc_cmd, VEL_SHIFT))]

\* the mode branch of the tick: desired_accel and the controller memory
DesiredAccel ==
    IF control_mode = MODE_CURRENT THEN
        [vel_integral |-> vel_integral,
         vel_prev_error |-> vel_prev_error,
         desired_accel |-> ToInt16(CDiv(target_current, ACCEL_FROM_CURRENT_DIV))]
    ELSE IF control_mode = MODE_VELOCITY THEN
        VelocityLaw(ToInt16(target_velocity - vel_q))
    ELSE
        LET pos_error == ToInt16(target_position - pos_q)
            vel_target_from_pos == ToInt16(Sar(POS_KP * pos_error, POS_SHIFT))
        IN  VelocityLaw(ToInt16(vel_target_from_pos - vel_q))

\* mutant of the jerk limit: the upper clamp of delta_a left out
mut_JerkLimit_no_upper_clamp(desired) ==
    LET d0 == ToInt16(desired - accel_q)
        delta_a == IF d0 < -JERK_PER_TICK THEN -JERK_PER_TICK ELSE d0
    IN  ToInt16(accel_q + delta_a)

\* the jerk limit: accel_q after the tick
JerkLimit(desired) ==
    LET d0 == ToInt16(desired - accel_q)
        d1 == IF d0 > JERK_PER_TICK THEN JERK_PER_TICK ELSE d0
        delta_a == IF d1 < -JERK_PER_TICK THEN -JERK_PER_TICK ELSE d1
    IN  ToInt16(accel_q + delta_a)

control_tick_and_publish ==
    LET law == DesiredAccel
        a == JerkLimit(law.desired_accel)
        v == clamp_int16(vel_q + a)
        x == clamp_int16(pos_q + v)
        current_est == clamp_int16(a * ACCEL_FROM_CURRENT_DIV)
    IN  /\ vel_integral' = law.vel_integral
        /\ vel_prev_error' = law.vel_prev_error
        /\ accel_q' = a
        /\ vel_q' = v
        /\ pos_q' = x
        /\ published' = <<current_est, v, x>>
        /\ desired_accel' = law.desired_accel
        /\ UNCHANGED <<control_mode, target_current, target_velocity, target_position,
                       last_cmd>>

-----------------------------------------------------------------------------
(* examples/motor_driver_mock.c: the scheduling loop of main *)

NSEC_PER_SEC == 1000000000
\* the tick period, 100 ms
PERIOD_NSEC == 100000000

Timespec(sec, nsec) == [tv_sec |-> sec, tv_nsec |-> nsec]

\* a later clock reading: t advanced by the duration d
Later(t, d) ==
    LET n == t.tv_nsec + d.tv_nsec
    IN  IF n >= NSEC_PER_SEC THEN Timespec(t.tv_sec + d.tv_sec + 1, n - NSEC_PER_SEC)
        ELSE Timespec(t.tv_sec + d.tv_sec, n)

TimeLess(a, b) ==
    a.tv_sec < b.tv_sec \/ (a.tv_sec = b.tv_sec /\ a.tv_nsec < b.tv_nsec)

\* mutant of the deadline update: one period after the last clock reading
mut_AdvanceTick_from_now(t) ==
    LET n == now.tv_nsec + PERIOD_NSEC
    IN  IF n >= NSEC_PER_SEC THEN Timespec(now.tv_sec + 1, n - NSEC_PER_SEC)
        ELSE Timespec(now.tv_sec, n)

\* next_tick.tv_nsec += 100000000L, with the carry into tv_sec
\* mutant of the deadline update: the deadline moves by a tenth of a period
mut_AdvanceTick_tenth(t) ==
    LET n == t.tv_nsec + (PERIOD_NSEC \div 10)
    IN  IF n >= NSEC_PER_SEC THEN Timespec(t.tv_sec + 1, n - NSEC_PER_SEC)
        ELSE Timespec(t.tv_sec, n)

AdvanceTick(t) ==
    LET n == t.tv_nsec + PERIOD_NSEC
    IN  IF n >= NSEC_PER_SEC THEN Timespec(t.tv_sec + 1, n - NSEC_PER_SEC)
        ELSE Timespec(t.tv_sec, n)

\* the select timeout computed from the clock reading t and the deadline
\* mutant of the timeout: the microseconds rounded up instead of truncated
mut_Timeout_round_up(t, deadline) ==
    LET dsec0 == deadline.tv_sec - t.tv_sec
        dnsec0 == deadline.tv_nsec - t.tv_nsec
        dsec1 == IF dnsec0 < 0 THEN dsec0 - 1 ELSE dsec0
        dnsec1 == IF dnsec0 < 0 THEN dnsec0 + NSEC_PER_SEC ELSE dnsec0
        dsec == IF dsec1 < 0 THEN 0 ELSE dsec1
        dnsec == IF dsec1 < 0 THEN 0 ELSE dnsec1
    IN  [tv_sec |-> dsec, tv_usec |-> (dnsec + 999) \div 1000]

Timeout(t, deadline) ==
    LET dsec0 == deadline.tv_sec - t.tv_sec
        dnsec0 == deadline.tv_nsec - t.tv_nsec
        dsec1 == IF dnsec0 < 0 THEN dsec0 - 1 ELSE dsec0
        dnsec1 == IF dnsec0 < 0 THEN dnsec0 + NSEC_PER_SEC ELSE dnsec0
        dsec == IF dsec1 < 0 THEN 0 ELSE dsec1
        dnsec == IF dsec1 < 0 THEN 0 ELSE dnsec1
    IN  [tv_sec |-> dsec, tv_usec |-> dnsec \div 1000]

\* mutant of the loop condition: a reading equal to the deadline is not due
mut_TickDue_strict(t, deadline) ==
    \/ t.tv_sec > deadline.tv_sec
    \/ (t.tv_sec = deadline.tv_sec /\ t.tv_nsec > deadline.tv_nsec)

\* the loop condition: now is at or past the deadline
TickDue(t, deadline) ==
    \/ t.tv_sec > deadline.tv_sec
    \/ (t.tv_sec = deadline.tv_sec /\ t.tv_nsec >= deadline.tv_nsec)

\* the clock may be read as t + d if that stays within the horizon h after t0
CanRead(t, d, h) == d = Timespec(0, 0) \/ TimeLess(Later(t, d), Later(t0, h))

ZeroTime == Timespec(0, 0)
ZeroTv   == [tv_sec |-> 0, tv_usec |-> 0]
NoCmd    == [port |-> "none", value |-> 0]
NoCheck  == [now |-> ZeroTime, ticks |-> 0]
CmdPorts == {"current", "velocity", "position"}

InitCtl ==
    /\ control_mode = MODE_CURRENT
    /\ target_current = 0
    /\ target_velocity = 0
    /\ target_position = 0
    /\ accel_q = 0
    /\ vel_q = 0
    /\ pos_q = 0
    /\ vel_integral = 0
    /\ vel_prev_error = 0
    /\ published = <<0, 0, 0>>
    /\ desired_accel = 0
    /\ last_cmd = NoCmd

InitSched(StartTimes) ==
    /\ now \in StartTimes
    /\ next_tick = ZeroTime
    /\ tv = ZeroTv
    /\ pc = "init_tick"
    /\ t0 = now
    /\ ticks = 0
    /\ frames = 0
    /\ rx_ret = "none"
    /\ first_check = [now |-> now, ticks |-> 0]

IdleMotor == InitCtl /\ InitSched({ZeroTime})

\* lines 262-269: the first deadline is one period after the first reading
InitTick ==
    /\ pc = "init_tick"
    /\ next_tick' = AdvanceTick(now)
    /\ pc' = "loop"
    /\ UNCHANGED <<now, tv, t0, ticks, frames, rx_ret, first_check, ctlVars,
                   canidVars, hdrVars, filterVars>>

\* lines 272-286: read the clock, compute the timeout
ComputeTimeout(D, h) ==
    /\ pc = "loop"
    /\ \E d \in D :
          /\ CanRead(now, d, h)
          /\ now' = Later(now, d)
          /\ tv' = Timeout(Later(now, d), next_tick)
    /\ pc' = "select"
    /\ first_check' = NoCheck
    /\ UNCHANGED <<next_tick, t0, ticks, frames, rx_ret, ctlVars,
                   canidVars, hdrVars, filterVars>>

\* select may overwrite tv and nothing reads it afterwards: the outcomes of
\* select below leave it cleared

\* lines 288-300, 306: select reports the socket readable, the frame is read
\* and handed to the receive function; then the clock is read
ReceiveFrame(F, D, h, cap) ==
    /\ pc = "select"
    /\ frames < cap
    /\ \E f \in F :
          /\ nova_can_motor_driver_rx(f)
          /\ last_cmd' = IF f.port \in CmdPorts THEN f ELSE last_cmd
    /\ \E d \in D : CanRead(now, d, h) /\ now' = Later(now, d)
    /\ frames' = frames + 1
    /\ rx_ret' = "frame"
    /\ first_check' = [now |-> now', ticks |-> ticks]
    /\ pc' = "catchup"
    /\ tv' = ZeroTv
    /\ UNCHANGED <<accel_q, vel_q, pos_q, vel_integral, vel_prev_error, published,
                   desired_accel, next_tick, t0, ticks, canidVars, hdrVars, filterVars>>

\* mutant of the failed read: the iteration is abandoned (continue) and the
\* due-check of line 306 is skipped
mut_ReadError_skips_catchup(D, h, cap) ==
    /\ pc = "select"
    /\ frames < cap
    /\ \E d \in D : CanRead(now, d, h) /\ now' = Later(now, d)
    /\ frames' = frames + 1
    /\ rx_ret' = "read_error"
    /\ first_check' = [now |-> now', ticks |-> ticks]
    /\ pc' = "loop"
    /\ tv' = ZeroTv
    /\ UNCHANGED <<ctlVars, next_tick, t0, ticks, canidVars, hdrVars, filterVars>>

\* lines 288-293, 306: the socket is readable but read fails
ReadError(D, h, cap) ==
    /\ pc = "select"
    /\ frames < cap
    /\ \E d \in D : CanRead(now, d, h) /\ now' = Later(now, d)
    /\ frames' = frames + 1
    /\ rx_ret' = "read_error"
    /\ first_check' = [now |-> now', ticks |-> ticks]
    /\ pc' = "catchup"
    /\ tv' = ZeroTv
    /\ UNCHANGED <<ctlVars, next_tick, t0, ticks, canidVars, hdrVars, filterVars>>

\* lines 288, 306: select returns 0 once the timeout has elapsed
SelectTimeout(D, h) ==
    /\ pc = "select"
    /\ \E d \in D :
          LET woke == Later(now, Timespec(tv.tv_sec, tv.tv_usec * 1000))
          IN  /\ TimeLess(woke, Later(t0, h))
              /\ CanRead(woke, d, h)
              /\ now' = Later(woke, d)
    /\ rx_ret' = "timeout"
    /\ first_check' = [now |-> now', ticks |-> ticks]
    /\ pc' = "catchup"
    /\ tv' = ZeroTv
    /\ UNCHANGED <<ctlVars, next_tick, t0, ticks, frames, canidVars, hdrVars, filterVars>>

\* lines 288, 301-303, 306: select fails
SelectError(D, h, cap) ==
    /\ pc = "select"
    /\ frames < cap
    /\ \E d \in D : CanRead(now, d, h) /\ now' = Later(now, d)
    /\ frames' = frames + 1
    /\ rx_ret' = "select_error"
    /\ first_check' = [now |-> now', ticks |-> ticks]
    /\ pc' = "catchup"
    /\ tv' = ZeroTv
    /\ UNCHANGED <<ctlVars, next_tick, t0, ticks, canidVars, hdrVars, filterVars>>

\* lines 307-317, condition true: one tick, the deadline one period later,
\* the clock read again
CatchUpTick(D, h) ==
    /\ pc = "catchup"
    /\ TickDue(now, next_tick)
    /\ control_tick_and_publish
    /\ next_tick' = AdvanceTick(next_tick)
    /\ \E d \in D : CanRead(now, d, h) /\ now' = Later(now, d)
    /\ ticks' = ticks + 1
    /\ UNCHANGED <<tv, pc, t0, frames, rx_ret, first_check, canidVars, hdrVars, filterVars>>

\* lines 307-308, condition false: back to the top of while (1)
CatchUpDone ==
    /\ pc = "catchup"
    /\ ~TickDue(now, next_tick)
    /\ pc' = "loop"
    /\ rx_ret' = "none"
    /\ UNCHANGED <<now, next_tick, tv, t0, ticks, frames, first_check, ctlVars,
                   canidVars, hdrVars, filterVars>>

-----------------------------------------------------------------------------
(* Inputs of the codec harnesses *)

\* how far around each field boundary the inputs reach
Near == 1

Window(b, top) == {v \in (b - Near)..(b + Near) : v >= 0 /\ v <= top}

\* uint8_t priority: around 0, the 3-bit limit and the top of the C type
PriorityIn == Window(0, 255) \cup Window(7, 255) \cup Window(8, 255) \cup Window(255, 255)
\* uint16_t port_id: around 0, the 9-bit limit and the top of the C type
PortIn == Window(0, 65535) \cup Window(511, 65535) \cup Window(512, 65535)
          \cup Window(65535, 65535)
\* uint8_t node ids: around 0, the 6-bit limit, the 7-bit limit and the top
NodeIn == Window(0, 255) \cup Window(63, 255) \cup Window(64, 255)
          \cup Window(127, 255) \cup Window(128, 255) \cup Window(255, 255)

\* the identifier of test_canid.c
TestId == NovaCAN_CANID(3, FALSE, FALSE, 52, 7, 1)

Identifiers ==
    {NovaCAN_CANID(p, s, sr, port, dst, src) :
        p \in PriorityIn, s \in BOOLEAN, sr \in BOOLEAN,
        port \in PortIn, dst \in NodeIn, src \in NodeIn} \cup {TestId}

\* every field within its declared range
InRange(x) ==
    /\ x.priority \in 0..7
    /\ x.port_id \in 0..511
    /\ x.destination_id \in 0..63
    /\ x.source_id \in 0..63

\* raw 32-bit identifiers: each bit group all clear, all set or lowest bit set
Chunk(lo, hi) == {{}, lo..hi, {lo}}
RawCanIds ==
    {UNION {a, b, c, d, e, f, g, h, i, j} :
        a \in Chunk(29, 31), b \in Chunk(26, 28), c \in Chunk(25, 25),
        d \in Chunk(24, 24), e \in Chunk(23, 23), f \in Chunk(14, 22),
        g \in Chunk(13, 13), h \in Chunk(7, 12), i \in Chunk(6, 6),
        j \in Chunk(0, 5)}

FrameHeaders ==
    {NOVA_CAN_FRAME_HEADER(sot, eot, tid) :
        sot \in BOOLEAN, eot \in BOOLEAN, tid \in 0..255}
HeaderBytes == SUBSET (0..7)

ZeroId  == NovaCAN_CANID(0, FALSE, FALSE, 0, 0, 0)
ZeroHdr == NOVA_CAN_FRAME_HEADER(FALSE, FALSE, 0)

InitCanid ==
    /\ \/ canid_struct \in Identifiers /\ canid = {}
       \/ canid_struct = ZeroId /\ canid \in RawCanIds
    /\ parsed = ZeroId
    /\ id_pc = "init"

InitHdr ==
    /\ \/ frame_header_struct \in FrameHeaders /\ frame_header = {}
       \/ frame_header_struct = ZeroHdr /\ frame_header \in HeaderBytes
    /\ hdr_parsed = ZeroHdr
    /\ hdr_pc = "init"

\* the value the caller's filter holds before the call (never a node_id << 7)
FilterGarbage == {0..31}
\* identifiers of frames offered to the installed filter: every destination,
\* sources on both sides of bit 7, the other fields all clear or all set
FilterIds ==
    {NovaCAN_CANID(IF hi THEN 255 ELSE 0, s, s, IF hi THEN 65535 ELSE 0, dst, src) :
        hi \in BOOLEAN, s \in BOOLEAN, dst \in 0..255, src \in {0, 127, 128}}

InitFilter ==
    /\ node_id \in 0..255
    /\ filter_in \in FilterGarbage
    /\ filter = filter_in
    /\ mask = {}
    /\ filter_ret = 0
    /\ sent = ZeroId
    /\ accepted = FALSE
    /\ flt_pc = "init"

IdleCanid  == canid_struct = ZeroId /\ canid = {} /\ parsed = ZeroId /\ id_pc = "init"
IdleHdr    == /\ frame_header_struct = ZeroHdr /\ frame_header = {}
              /\ hdr_parsed = ZeroHdr /\ hdr_pc = "init"
IdleFilter == /\ node_id = 0 /\ filter_in = {} /\ filter = {} /\ mask = {}
              /\ filter_ret = 0 /\ sent = ZeroId /\ accepted = FALSE /\ flt_pc = "init"

-----------------------------------------------------------------------------
(* Identifier codec: test_canid.c drives serialize, then deserialize *)

SerializeCanid ==
    /\ id_pc = "init"
    /\ canid' = nova_can_serialize_canid(canid_struct)
    /\ id_pc' = "serialized"
    /\ UNCHANGED <<canid_struct, parsed, hdrVars, filterVars, motorVars>>

DeserializeCanid ==
    /\ id_pc \in {"init", "serialized"}
    /\ parsed' = nova_can_deserialize_canid(canid)
    /\ id_pc' = IF id_pc = "serialized" THEN "roundtrip" ELSE "deserialized"
    /\ UNCHANGED <<canid_struct, canid, hdrVars, filterVars, motorVars>>

NextCanid == SerializeCanid \/ DeserializeCanid
InitSpecCanid == InitCanid /\ IdleHdr /\ IdleFilter /\ IdleMotor
SpecCanid == InitSpecCanid /\ [][NextCanid]_vars

(* Frame header codec *)

SerializeFrameHeader ==
    /\ hdr_pc = "init"
    /\ frame_header' = nova_can_serialize_frame_header(frame_header_struct)
    /\ hdr_pc' = "serialized"
    /\ UNCHANGED <<frame_header_struct, hdr_parsed, canidVars, filterVars, motorVars>>

DeserializeFrameHeader ==
    /\ hdr_pc \in {"init", "serialized"}
    /\ hdr_parsed' = nova_can_deserialize_frame_header(frame_header)
    /\ hdr_pc' = IF hdr_pc = "serialized" THEN "roundtrip" ELSE "deserialized"
    /\ UNCHANGED <<frame_header_struct, frame_header, canidVars, filterVars, motorVars>>

NextHdr == SerializeFrameHeader \/ DeserializeFrameHeader
InitSpecHdr == IdleCanid /\ InitHdr /\ IdleFilter /\ IdleMotor
SpecHdr == InitSpecHdr /\ [][NextHdr]_vars

(* Acceptance filter: derive filter and mask, then offer frames to them *)

GetCanidFilter ==
    /\ flt_pc = "init"
    /\ LET r == nova_can_get_canid_filter(node_id, filter)
       IN  filter_ret' = r.ret /\ filter' = r.filter
    /\ flt_pc' = "derived"
    /\ UNCHANGED <<node_id, filter_in, mask, sent, accepted, canidVars, hdrVars, motorVars>>

GetCanidMask ==
    /\ flt_pc = "derived"
    /\ mask' = nova_can_get_canid_mask.mask
    /\ flt_pc' = "masked"
    /\ UNCHANGED <<node_id, filter_in, filter, filter_ret, sent, accepted,
                   canidVars, hdrVars, motorVars>>

\* the transport's acceptance test on a frame sent with identifier i
OfferFrame ==
    /\ flt_pc = "masked"
    /\ filter_ret = 0
    /\ \E i \in FilterIds :
          /\ sent' = i
          /\ accepted' = (BitAnd(nova_can_serialize_canid(i), mask) = filter)
    /\ flt_pc' = "matched"
    /\ UNCHANGED <<node_id, filter_in, filter, mask, filter_ret, canidVars, hdrVars, motorVars>>

NextFilter == GetCanidFilter \/ GetCanidMask \/ OfferFrame
InitSpecFilter == IdleCanid /\ IdleHdr /\ InitFilter /\ IdleMotor
SpecFilter == InitSpecFilter /\ [][NextFilter]_vars

-----------------------------------------------------------------------------
(* The motor driver node *)

\* bounds of the node's environment
MaxPeriods == 2        \* the clock is followed until this many periods and a half after t0
MaxFrames  == 2        \* select wake-ups with a readable socket or an error

\* payload values of the command frames
CmdValues == {-32768, 100, 32767}
Frames ==
    {[port |-> "velocity", value |-> v] : v \in CmdValues}
    \cup {[port |-> "current", value |-> 100],
          [port |-> "position", value |-> -32768],
          [port |-> "other", value |-> 0]}

\* time that passes between two clock readings: none, or 45 ms and a
\* fraction of a microsecond
ShortDelays == {Timespec(0, 0), Timespec(0, 45000999)}
\* time that passes while select and read run: the same, or 250 ms
Delays == ShortDelays \cup {Timespec(0, 250000000)}
\* clock readings the schedule may start from; the second makes tv_nsec carry
\* and is no whole number of microseconds
StartTimes == {Timespec(0, 0), Timespec(5, 950000123)}

Horizon == Timespec(0, MaxPeriods * PERIOD_NSEC + (PERIOD_NSEC \div 2) + 1)

Init == IdleCanid /\ IdleHdr /\ IdleFilter /\ InitCtl /\ InitSched(StartTimes)

Next ==
    \/ InitTick
    \/ ComputeTimeout(ShortDelays, Horizon)
    \/ ReceiveFrame(Frames, Delays, Horizon, MaxFrames)
    \/ ReadError(Delays, Horizon, MaxFrames)
    \/ SelectTimeout(Delays, Horizon)
    \/ SelectError(Delays, Horizon, MaxFrames)
    \/ CatchUpTick(ShortDelays, Horizon)
    \/ CatchUpDone

Spec == Init /\ [][Next]_vars

\* the loop with one kind of frame and every tick taking less than one
\* period.  main is one sequential thread and neither the clock reading nor
\* the tick blocks: a step of the loop that can be taken is taken.
LiveFrames == {[port |-> "velocity", value |-> 100]}

NextLive ==
    \/ InitTick
    \/ ComputeTimeout(ShortDelays, Horizon)
    \/ ReceiveFrame(LiveFrames, Delays, Horizon, MaxFrames)
    \/ SelectTimeout(ShortDelays, Horizon)
    \/ CatchUpTick(ShortDelays, Horizon)
    \/ CatchUpDone

SpecLive ==
    /\ Init
    /\ [][NextLive]_vars
    /\ WF_vars(ComputeTimeout(ShortDelays, Horizon))
    /\ WF_vars(CatchUpTick(ShortDelays, Horizon))
    /\ WF_vars(CatchUpDone)

(* The node on a busy bus with long stalls: a frame is always pending, and
   after handling one the process may be held up (a blocked printf, a stopped
   process) for StallSec seconds, so that the ticks missed are caught up
   back to back. *)

StallSec       == 400  \* length of one stall, in seconds
MaxStalls      == 3    \* the clock is followed for this many stalls after t0
MaxStallFrames == 3    \* frames received

StallFrames  == {[port |-> "velocity", value |-> v] : v \in {-32768, -1, 0}}
NoDelay      == {Timespec(0, 0)}
StallDelays  == {Timespec(0, 0), Timespec(StallSec, 0)}
StallHorizon == Timespec(StallSec * MaxStalls + 1, 0)

NextStall ==
    \/ InitTick
    \/ ComputeTimeout(NoDelay, StallHorizon)
    \/ ReceiveFrame(StallFrames, StallDelays, StallHorizon, MaxStallFrames)
    \/ CatchUpTick(NoDelay, StallHorizon)
    \/ CatchUpDone

SpecStall == Init /\ [][NextStall]_vars

\* the node from the start of main: the socket is set up, the acceptance
\* filter derived from the configured node id and installed, then the loop
\* runs.  NODE_ID comes from the generated header; the local filter of main
\* is uninitialised before the derivation, so its value is any word.
NodeIdConfigs  == {0, 63, 64, 255}
StartupGarbage == {{}, Bits(21845)}

InitStartup ==
    /\ IdleCanid /\ IdleHdr /\ InitCtl
    /\ node_id \in NodeIdConfigs
    /\ filter_in \in StartupGarbage
    /\ filter = filter_in
    /\ mask = {}
    /\ filter_ret = 0
    /\ sent = ZeroId
    /\ accepted = FALSE
    /\ flt_pc = "init"
    /\ now = ZeroTime
    /\ next_tick = ZeroTime
    /\ tv = ZeroTv
    /\ pc = "startup"
    /\ t0 = now
    /\ ticks = 0
    /\ frames = 0
    /\ rx_ret = "none"
    /\ first_check = [now |-> now, ticks |-> 0]

\* lines 219-240: socket, ioctl or bind fails and main returns 1
SocketSetupFails ==
    /\ pc = "startup"
    /\ flt_pc = "init"
    /\ pc' = "exit"
    /\ UNCHANGED <<now, next_tick, tv, t0, ticks, frames, rx_ret, first_check,
                   ctlVars, canidVars, hdrVars, filterVars>>

\* line 248: the filter is derived; the return value is not looked at
StartupGetFilter == pc = "startup" /\ GetCanidFilter

\* line 249
StartupGetMask == pc = "startup" /\ GetCanidMask

\* lines 254-257: setsockopt installs filter and mask and succeeds
InstallFilter ==
    /\ pc = "startup"
    /\ flt_pc = "masked"
    /\ flt_pc' = "installed"
    /\ pc' = "init_tick"
    /\ UNCHANGED <<node_id, filter_in, filter, mask, filter_ret, sent, accepted,
                   now, next_tick, tv, t0, ticks, frames, rx_ret, first_check,
                   ctlVars, canidVars, hdrVars>>

\* lines 257-260: setsockopt fails and main returns 1
InstallFails ==
    /\ pc = "startup"
    /\ flt_pc = "masked"
    /\ pc' = "exit"
    /\ UNCHANGED <<now, next_tick, tv, t0, ticks, frames, rx_ret, first_check,
                   ctlVars, canidVars, hdrVars, filterVars>>

NextStartup ==
    \/ SocketSetupFails
    \/ StartupGetFilter
    \/ StartupGetMask
    \/ InstallFilter
    \/ InstallFails
    \/ Next

SpecStartup == InitStartup /\ [][NextStartup]_vars

-----------------------------------------------------------------------------
(* Properties of the motor driver node *)

\* C8: every control tick changes accel_q by at most JERK_PER_TICK, the
\* values before and after compared as signed integers.
C8_JerkBound ==
    [][ticks' = ticks + 1 =>
         /\ accel_q' - accel_q <= JERK_PER_TICK
         /\ accel_q - accel_q' <= JERK_PER_TICK]_vars

\* C9: in every reachable state -3000 <= vel_integral <= 3000.
C9_AntiWindup == vel_integral >= -VEL_INT_LIM /\ vel_integral <= VEL_INT_LIM

C9_Witness ==
    /\ ticks >= 2
    /\ control_mode = MODE_POSITION
    /\ vel_integral = -VEL_INT_LIM
    /\ vel_prev_error < -VEL_INT_LIM

\* whole periods between the clock readings a and b
PeriodsBetween(a, b) ==
    LET dn == b.tv_nsec - a.tv_nsec
        ds == b.tv_sec - a.tv_sec
    IN  IF dn < 0 THEN (ds - 1) * 10 + ((dn + NSEC_PER_SEC) \div PERIOD_NSEC)
        ELSE ds * 10 + (dn \div PERIOD_NSEC)

\* the clock reading k periods after t
PlusPeriods(t, k) ==
    LET n == t.tv_nsec + (k % 10) * PERIOD_NSEC
    IN  IF n >= NSEC_PER_SEC THEN Timespec(t.tv_sec + (k \div 10) + 1, n - NSEC_PER_SEC)
        ELSE Timespec(t.tv_sec + (k \div 10), n)

\* C10: when the catch-up check is left with clock reading now, the ticks
\* executed number floor((now - t0) / period); the deadline is always
\* t0 + (ticks + 1) * period.
C10_NoTickSkipped ==
    /\ pc = "loop" => ticks = PeriodsBetween(t0, now)
    /\ pc # "init_tick" => next_tick = PlusPeriods(t0, ticks + 1)

C10_Witness ==
    /\ pc = "loop"
    /\ ticks = 2
    /\ frames = 2
    /\ t0 = Timespec(5, 950000123)
    /\ now = Timespec(6, 200000123)

\* whole periods owed, and ticks fired, since the first due-check of the
\* current loop iteration
Owed  == PeriodsBetween(t0, first_check.now) - first_check.ticks
Burst == ticks - first_check.ticks

\* deadlines the clock passed between the first due-check and reading t
Crossed(t) == PeriodsBetween(t0, t) - PeriodsBetween(t0, first_check.now)

\* C11 (as stated): when the first due-check of an iteration finds N whole
\* periods owed, exactly N ticks have fired when the catch-up check is left.
C11_ExactlyOwed == pc = "loop" => Burst = Owed

\* C11 (amended): the ticks fired back-to-back are the N owed at the first
\* due-check plus one for every further deadline the clock passes while the
\* ticks run; they are exactly N when the clock passes none.
C11_OwedPlusCrossed ==
    pc = "loop" =>
        /\ Burst >= Owed
        /\ Burst = Owed + Crossed(now)
        /\ (Crossed(now) = 0 => Burst = Owed)

C11_Witness ==
    /\ pc = "loop"
    /\ Owed = 1
    /\ Burst = 2
    /\ Crossed(now) = 1

\* the select timeout as a time span
TvSpan(v) == Timespec(v.tv_sec, v.tv_usec * 1000)

\* C12: the timeout handed to select never reaches past the deadline when
\* added to the clock reading it was computed from, and is zero when the
\* deadline is due or overdue at that reading.
C12_BoundedWait ==
    pc = "select" =>
        /\ tv.tv_sec >= 0
        /\ tv.tv_usec >= 0
        /\ tv.tv_usec < 1000000
        /\ (TickDue(now, next_tick) => tv = ZeroTv)
        /\ (~TickDue(now, next_tick) =>
                ~TimeLess(next_tick, Later(now, TvSpan(tv))))

\* a wait cut short by the truncation to microseconds
C12_Witness ==
    /\ pc = "select"
    /\ ~TickDue(now, next_tick)
    /\ tv.tv_usec > 0
    /\ TimeLess(Later(now, TvSpan(tv)), next_tick)

\* a zero timeout for an overdue deadline
C12_WitnessOverdue ==
    /\ pc = "select"
    /\ TimeLess(next_tick, now)
    /\ tv = ZeroTv

\* C14: with a configured node id above 63 the node never installs an
\* acceptance filter, never reaches the scheduling loop, never handles a
\* frame and never executes a tick.
C14_InvalidNodeFatal ==
    node_id > 63 =>
        /\ flt_pc # "installed"
        /\ pc \in {"startup", "exit"}
        /\ frames = 0
        /\ ticks = 0

\* the mode a command port selects, and the target a mode reads
ModeOf(q) ==
    IF q = "current" THEN MODE_CURRENT
    ELSE IF q = "velocity" THEN MODE_VELOCITY
    ELSE MODE_POSITION
TargetOf(m) ==
    IF m = MODE_CURRENT THEN target_current
    ELSE IF m = MODE_VELOCITY THEN target_velocity
    ELSE target_position

TickStep == ticks' = ticks + 1

\* C13: once a command (port q, value v) has been handed to its handler
\* the mode is the mode of q and the target of that mode is v, whatever
\* they were before; every tick that runs while this is the last command
\* computes desired_accel from that mode and v.
C13_ModeSwitchImmediate ==
    /\ [](last_cmd # NoCmd =>
            /\ control_mode = ModeOf(last_cmd.port)
            /\ TargetOf(control_mode) = last_cmd.value)
    /\ [][(TickStep /\ last_cmd # NoCmd) =>
            IF last_cmd.port = "current" THEN
                /\ desired_accel' = ToInt16(CDiv(last_cmd.value, ACCEL_FROM_CURRENT_DIV))
                /\ vel_prev_error' = vel_prev_error
            ELSE
                /\ vel_prev_error' =
                      IF last_cmd.port = "velocity"
                      THEN ToInt16(last_cmd.value - vel_q)
                      ELSE ToInt16(ToInt16(Sar(POS_KP * ToInt16(last_cmd.value - pos_q),
                                               POS_SHIFT)) - vel_q)
                /\ desired_accel' =
                      ToInt16(Sar(VEL_KP * vel_prev_error' + VEL_KI * vel_integral',
                                  VEL_SHIFT))]_vars

\* a Position command, then a Velocity command, then the first tick
C13_Witness ==
    /\ frames = 2
    /\ ticks = 1
    /\ target_position = -32768
    /\ last_cmd = [port |-> "velocity", value |-> 100]
    /\ control_mode = MODE_VELOCITY
    /\ vel_prev_error = 100
    /\ desired_accel = 62

AtRest == accel_q = 0 /\ vel_q = 0 /\ pos_q = 0 /\ vel_integral = 0

\* C15: a tick from rest in Velocity mode with target 100 leaves
\* vel_integral = 100, accel_q = 5, vel_q = 5, pos_q = 5; desired_accel is 62.
C15_ReferenceTick ==
    [][(TickStep /\ AtRest /\ control_mode = MODE_VELOCITY /\ target_velocity = 100) =>
         /\ vel_integral' = 100
         /\ desired_accel' = 62
         /\ accel_q' = 5
         /\ vel_q' = 5
         /\ pos_q' = 5]_vars

C15_Witness ==
    /\ ticks = 1
    /\ control_mode = MODE_VELOCITY
    /\ target_velocity = 100
    /\ vel_prev_error = 100
    /\ vel_integral = 100
    /\ desired_accel = 62
    /\ accel_q = 5
    /\ vel_q = 5
    /\ pos_q = 5

RxErrors == {"read_error", "select_error"}

\* C16: an iteration whose read or select fails dispatches nothing and leaves
\* the control state, the deadline and the tick count as they were; the
\* due-check follows in the same iteration, every due tick fires, and the
\* iteration ends with no tick due and none skipped.
C16_ErrorKeepsTicks ==
    /\ [][(pc = "select" /\ rx_ret' \in RxErrors) =>
            /\ UNCHANGED ctlVars
            /\ next_tick' = next_tick
            /\ ticks' = ticks
            /\ pc' = "catchup"]_vars
    /\ [](rx_ret \in RxErrors => pc = "catchup")
    /\ [][(rx_ret \in RxErrors /\ TickDue(now, next_tick)) => TickStep]_vars
    /\ [][(rx_ret \in RxErrors /\ ~TickDue(now, next_tick)) =>
            /\ pc' = "loop"
            /\ ticks' = PeriodsBetween(t0, now')]_vars

\* a failed read 250 ms after the start, both owed ticks run in its iteration
C16_Witness ==
    /\ rx_ret = "read_error"
    /\ pc = "catchup"
    /\ Burst = 2
    /\ ~TickDue(now, next_tick)

\* the same after a failed select
C16_WitnessSelect ==
    /\ rx_ret = "select_error"
    /\ pc = "catchup"
    /\ Burst = 2
    /\ ~TickDue(now, next_tick)

\* C19: the receive step of a frame leaves accel_q, vel_q, pos_q,
\* vel_integral, vel_prev_error, the tick deadline and the targets of the
\* modes not commanded unchanged; a tick in Current mode leaves vel_integral
\* unchanged.
C19_FrameEffect ==
    /\ [][(pc = "select" /\ rx_ret' = "frame") =>
            /\ UNCHANGED <<accel_q, vel_q, pos_q, vel_integral, vel_prev_error,
                           next_tick, ticks, published>>
            /\ \A m \in {MODE_CURRENT, MODE_VELOCITY, MODE_POSITION} :
                   (last_cmd' = NoCmd \/ m # ModeOf(last_cmd'.port)) =>
                       TargetOf(m)' = TargetOf(m)]_vars
    /\ [][(TickStep /\ control_mode = MODE_CURRENT) =>
            vel_integral' = vel_integral]_vars

\* the integral wound up in Velocity mode survives the switch to Current
\* mode and the tick that follows
C19_Witness ==
    /\ ticks = 2
    /\ frames = 2
    /\ control_mode = MODE_CURRENT
    /\ last_cmd = [port |-> "current", value |-> 100]
    /\ target_velocity = 32767
    /\ vel_integral = VEL_INT_LIM
    /\ desired_accel = 50

\* nanoseconds from b to a, for readings less than two seconds apart
NsBetween(a, b) == (a.tv_sec - b.tv_sec) * NSEC_PER_SEC + (a.tv_nsec - b.tv_nsec)
OnePeriod == Timespec(0, PERIOD_NSEC)

\* C20: every tick during which the clock advances by less than one period
\* shortens the time by which the clock is past the deadline; the catch-up
\* check is left only with the deadline strictly later than the last clock
\* reading; a catch-up that has begun ends and the loop goes back to
\* waiting for a frame.
C20_CatchUpTerminates ==
    /\ [][(TickStep /\ TimeLess(now', Later(now, OnePeriod))) =>
            NsBetween(now', next_tick') < NsBetween(now, next_tick)]_vars
    /\ [][(pc = "catchup" /\ pc' = "loop") => TimeLess(now', next_tick')]_vars
    /\ ((pc = "catchup") ~> (pc = "select"))

\* a catch-up of two ticks, the clock advancing during them, has ended
C20_Witness ==
    /\ pc = "loop"
    /\ Burst = 2
    /\ TimeLess(first_check.now, now)
    /\ TimeLess(now, next_tick)

\* the control law of the specification in unbounded integers
Clamp(x, lo, hi) == IF x > hi THEN hi ELSE IF x < lo THEN lo ELSE x
ExactIntegral(error) == Clamp(vel_integral + error, -VEL_INT_LIM, VEL_INT_LIM)
ExactVelocityLaw(error) == Sar(VEL_KP * error + VEL_KI * ExactIntegral(error), VEL_SHIFT)
ExactVelError ==
    IF control_mode = MODE_VELOCITY THEN target_velocity - vel_q
    ELSE Sar(POS_KP * (target_position - pos_q), POS_SHIFT) - vel_q
ExactDesiredAccel ==
    IF control_mode = MODE_CURRENT THEN CDiv(target_current, ACCEL_FROM_CURRENT_DIV)
    ELSE ExactVelocityLaw(ExactVelError)

\* C17: the desired_accel (and the integral) a tick computes are those of
\* the specification's formulas evaluated in unbounded integer arithmetic.
C17_ExactLaw ==
    [][TickStep =>
         /\ desired_accel' = ExactDesiredAccel
         /\ (control_mode # MODE_CURRENT =>
                vel_integral' = ExactIntegral(ExactVelError))]_vars

\* C18: in every tick vel_q becomes old vel_q + new accel_q, pos_q becomes
\* old pos_q + new vel_q and the published current becomes 2 * accel_q, each
\* saturated to [-32768, 32767]; velocity and position are published as stored.
C18_PlantSaturates ==
    [][TickStep =>
         /\ vel_q' = Clamp(vel_q + accel_q', INT16_MIN, INT16_MAX)
         /\ pos_q' = Clamp(pos_q + vel_q', INT16_MIN, INT16_MAX)
         /\ published' = <<Clamp(accel_q' * ACCEL_FROM_CURRENT_DIV, INT16_MIN, INT16_MAX),
                           vel_q', pos_q'>>]_vars

\* all three values held at the lower bound while accel_q is still negative
C18_Witness ==
    /\ accel_q < -16384
    /\ vel_q = INT16_MIN
    /\ pos_q = INT16_MIN
    /\ published = <<INT16_MIN, INT16_MIN, INT16_MIN>>

-----------------------------------------------------------------------------
(* Properties of the codec and of the filter derivation *)

\* the w-bit field of word c whose lowest bit is bit lo
Slice(c, lo, w) == Val({i - lo : i \in c \cap (lo..(lo + w - 1))})

\* the identifier the bit table yields, node ids being w bits wide
TableId(c, w) ==
    NovaCAN_CANID(Slice(c, 26, 3), 25 \in c, 24 \in c,
                  Slice(c, 14, 9), Slice(c, 7, w), Slice(c, 0, w))

B2N(b) == IF b THEN 1 ELSE 0

\* the shifted fields of identifier x, as integers
FieldTerms(x) ==
    <<x.priority * Pow2(26), B2N(x.service) * Pow2(25),
      B2N(x.service_request) * Pow2(24), x.port_id * Pow2(14),
      x.destination_id * Pow2(7), x.source_id>>

\* C1: decoding the encoding of an identifier whose fields are all within
\* their declared ranges gives back the identifier, field by field.
C1_RoundTripCanid ==
    (id_pc = "roundtrip" /\ InRange(canid_struct)) => parsed = canid_struct

C1_Witness ==
    /\ id_pc = "roundtrip"
    /\ canid_struct = NovaCAN_CANID(7, TRUE, TRUE, 511, 63, 63)
    /\ parsed = canid_struct

\* C2: for an identifier within its declared ranges the encoder yields the
\* sum of the shifted fields, whose bits are pairwise disjoint, below 2^29;
\* the identifier of the test encodes to (3<<26)|(52<<14)|(7<<7)|1.
C2_EncodeLayout ==
    (id_pc \in {"serialized", "roundtrip"} /\ InRange(canid_struct)) =>
        LET t == FieldTerms(canid_struct) IN
        /\ canid \subseteq 0..28
        /\ Val(canid) = t[1] + t[2] + t[3] + t[4] + t[5] + t[6]
        /\ \A i, j \in 1..6 : i # j => Bits(t[i]) \cap Bits(t[j]) = {}
        /\ canid_struct = TestId => Val(canid) = 202179457

C2_Witness ==
    /\ id_pc = "serialized"
    /\ canid_struct = TestId
    /\ Val(canid) = 3 * Pow2(26) + 52 * Pow2(14) + 7 * Pow2(7) + 1

\* C3 as stated: the decoder returns, for every raw word, the fields of the
\* bit table with 7-bit destination (bits 13..7) and source (bits 6..0).
C3_DecodeTable7 ==
    id_pc \in {"deserialized", "roundtrip"} => parsed = TableId(canid, 7)

\* C3 amended: the decoder never fails and returns, for every raw word,
\* priority = bits 28..26, service = bit 25, service_request = bit 24,
\* port_id = the 9 bits from bit 14, destination_id = the 6 bits 12..7 and
\* source_id = the 6 bits 5..0; bits 29..31 (and 23, 13, 6) are ignored.
C3_DecodeTable6 ==
    id_pc \in {"deserialized", "roundtrip"} =>
        /\ parsed = TableId(canid, 6)
        /\ parsed = TableId(canid \ {6, 13, 23, 29, 30, 31}, 6)

C3_Witness ==
    /\ id_pc = "deserialized"
    /\ canid = 0..31
    /\ parsed = NovaCAN_CANID(7, TRUE, TRUE, 511, 63, 63)

\* C4: decoding the byte encoded from a header with transfer_id in 0..31
\* gives back the header; start flag in bit 7, end flag in bit 6,
\* transfer_id in bits 4..0.
C4_RoundTripHeader ==
    (hdr_pc = "roundtrip" /\ frame_header_struct.transfer_id \in 0..31) =>
        /\ hdr_parsed = frame_header_struct
        /\ (7 \in frame_header) = frame_header_struct.start_of_transfer
        /\ (6 \in frame_header) = frame_header_struct.end_of_transfer
        /\ Slice(frame_header, 0, 5) = frame_header_struct.transfer_id
        /\ 5 \notin frame_header

C4_Witness ==
    /\ hdr_pc = "roundtrip"
    /\ frame_header_struct = NOVA_CAN_FRAME_HEADER(FALSE, TRUE, 31)
    /\ hdr_parsed = frame_header_struct

\* C5: for any 8-bit transfer_id, encoding then decoding keeps both flags
\* and yields transfer_id modulo 32.
C5_HeaderTruncation ==
    hdr_pc = "roundtrip" =>
        /\ hdr_parsed.start_of_transfer = frame_header_struct.start_of_transfer
        /\ hdr_parsed.end_of_transfer = frame_header_struct.end_of_transfer
        /\ hdr_parsed.transfer_id = frame_header_struct.transfer_id % 32

\* C6 as stated: for every identifier offered to the filter derived for a
\* node id in 0..63, the frame is accepted iff destination_id = node_id.
C6_FilterAnyId ==
    flt_pc = "matched" => (accepted <=> sent.destination_id = node_id)

\* C6 amended: for every identifier whose destination_id is in 0..63 and
\* whose source_id is in 0..127, whatever its priority, service flags and
\* port_id, the frame is accepted iff destination_id = node_id.
C6_FilterIdInRange ==
    (flt_pc = "matched" /\ sent.destination_id <= 63 /\ sent.source_id <= 127) =>
        (accepted <=> sent.destination_id = node_id)

C6_Witness ==
    /\ flt_pc = "matched"
    /\ node_id = 63
    /\ sent = NovaCAN_CANID(255, TRUE, TRUE, 65535, 63, 127)
    /\ accepted

\* C7: the derivation returns 0 and writes node_id << 7 iff node_id <= 63;
\* otherwise it returns -1 and leaves the caller's filter as it was; the
\* mask is 0x3F << 7 whatever the node id.
C7_FilterValidation ==
    /\ flt_pc # "init" =>
          /\ (filter_ret = 0) <=> (node_id <= 63)
          /\ node_id <= 63 => filter \subseteq 0..30 /\ Val(filter) = node_id * 128
          /\ node_id > 63 => filter_ret = -1 /\ filter = filter_in
    /\ flt_pc \in {"masked", "matched"} => Val(mask) = 63 * 128

C7_Witness ==
    /\ flt_pc = "masked"
    /\ node_id = 64
    /\ filter_ret = -1
    /\ filter_in = 0..31
    /\ filter = filter_in

====
